---- MODULE Spec2Model ----
(***************************************************************************)
(* Hybrid catalog of backend/server.js: product metadata lives in the text *)
(* artifact constant.tsx (read and rewritten as a whole), product ZIPs     *)
(* live in the ProductFile collection.  Every request handler is an async  *)
(* function; each await is a point where other handlers may run, so a      *)
(* handler is modelled as one action per awaited step.                     *)
(***************************************************************************)
EXTENDS Integers, Sequences, FiniteSets, TLC

\* ---------------------------------------------------------------- bounds
\* Number of HTTP requests served in one behaviour.
MaxReq == 2

Reqs == 1 .. MaxReq

\* ------------------------------------------------------------- JS values
Undef == "undefined"
Null == "null"
\* Absent id key in a request body (ids are numbers in the model).
NoId == 0

\* JavaScript truthiness of a string-or-missing value.
Truthy(v) == v \notin {Undef, Null, ""}

\* a || b
OrElse(a, b) == IF Truthy(a) THEN a ELSE b

\* ------------------------------------------------------- product records
\* A record of the products array.  title stands for every plain field that
\* the handlers copy from the body (title, description, features, images,
\* price, category, type).
Product(id, title, dfn) ==
    [id |-> id, title |-> title, downloadableFileName |-> dfn]

\* The artifact holds products 1 and 2 at start; crypto.randomUUID() yields
\* ids that were never handed out, modelled by a counter above them.
FirstFreshId == 3

\* An id that no product ever had (a stale or mistyped route parameter).
StaleId == 9

\* ids a caller names in /api/products/:id: a seeded product that has a ZIP,
\* the first id an Add creates, and a stale one.
TargetIds == {1, FirstFreshId, StaleId}

\* ProductFile document.
Blob(id, fileName, fileData) ==
    [productId |-> id, fileName |-> fileName, fileData |-> fileData]

\* ------------------------------------------------------- request bodies
\* req.body.downloadableFile: not provided, null, or {fileName, fileData}.
NotProvided == [kind |-> Undef, fileName |-> Undef, fileData |-> Undef]
ExplicitNull == [kind |-> Null, fileName |-> Undef, fileData |-> Undef]
File(name, data) == [kind |-> "object", fileName |-> name, fileData |-> data]

\* downloadableFile && downloadableFile.fileData
HasFileData(df) == df.kind = "object" /\ Truthy(df.fileData)

\* downloadableFile === null
IsExplicitNull(df) == df.kind = Null

\* POST bodies that pass validation, by their downloadableFile.
AddPayloads == {NotProvided, File("a.zip", "ZIP"), File("a.zip", Undef)}

\* The ...metadata rest of a PUT body: each key absent or supplied.
Fields(id, title, dfn) ==
    [id |-> id, title |-> title, downloadableFileName |-> dfn]

\* One body renames the product and names another product's id; the other
\* supplies downloadableFileName as a plain field.
UpdateFields == {Fields(2, "t2", Undef), Fields(NoId, Undef, "b.zip")}

UpdatePayloads == {NotProvided, ExplicitNull, File("b.zip", "ZIP")}

\* DELETE /api/products bodies: ids is an array, or missing.
BulkBodies == {<<1>>, <<2, FirstFreshId>>, <<2, StaleId>>}

\* ------------------------------------------------------------- variables
VARIABLES
    artifact,   \* content of constant.tsx
    blobs,      \* the ProductFile collection
    nextId,     \* next id crypto.randomUUID() hands out
    req,        \* per request: handler, body, position, locals, response
    initial,    \* the artifact content at start (history)
    call        \* the last call made on a quiet server: inputs and response

vars == <<artifact, blobs, nextId, req, initial, call>>

\* ------------------------------------------------- constant.tsx contents
\* kind "ok": `export const products = <JSON array>;`
\* kind "corrupt": the marker is there but the text after it does not parse
\* kind "partial": opened for writing (truncated) and not fully written
Content(kind, products) == [kind |-> kind, products |-> products]

\* JSON.stringify(products, null, 2) behind the marker.
Serialize(products) == Content("ok", products)

\* readProductsFromConstant: the parsed array, [] on any error.
readProductsFromConstant(a) == IF a.kind = "ok" THEN a.products ELSE << >>

\* products.findIndex(p => p.id === id), 0 for -1.
RECURSIVE FindFrom(_, _, _)
FindFrom(products, id, i) ==
    IF i > Len(products) THEN 0
    ELSE IF products[i].id = id THEN i
    ELSE FindFrom(products, id, i + 1)

findIndex(products, id) == FindFrom(products, id, 1)

\* ids.includes(x)
includes(ids, x) == \E i \in 1 .. Len(ids) : ids[i] = x

\* -------------------------------------------------------- pure handlers
\* newProduct of POST /api/products.
NewProduct(id, df) ==
    Product(id, "t1", OrElse(df.fileName, Null))

\* Variant: products.push(newProduct).
AddedProductsAppended(products, id, df) == products \o <<NewProduct(id, df)>>

\* products.unshift(newProduct)
AddedProducts(products, id, df) == <<NewProduct(id, df)>> \o products

\* metadata after step 1 of PUT: the rest of the body, with
\* downloadableFileName set by the payload branch taken.
UpdateMetadata(fields, df) ==
    IF HasFileData(df)
    THEN [fields EXCEPT !.downloadableFileName = df.fileName]
    ELSE IF IsExplicitNull(df)
    THEN [fields EXCEPT !.downloadableFileName = Null]
    ELSE fields

\* Variant: the route id is spread before the body, { ...old, id, ...metadata },
\* so an id key in the body wins.
UpdatedProductBodyIdWins(old, metadata, id) ==
    Product(IF metadata.id = NoId THEN id ELSE metadata.id,
            IF metadata.title = Undef THEN old.title ELSE metadata.title,
            IF metadata.downloadableFileName = Undef
            THEN old.downloadableFileName
            ELSE metadata.downloadableFileName)

\* { ...products[index], ...metadata, id }
UpdatedProduct(old, metadata, id) ==
    Product(id,
            IF metadata.title = Undef THEN old.title ELSE metadata.title,
            IF metadata.downloadableFileName = Undef
            THEN old.downloadableFileName
            ELSE metadata.downloadableFileName)

\* products[index] = updatedProduct
UpdatedProducts(products, index, id, fields, df) ==
    [products EXCEPT
       ![index] = UpdatedProduct(products[index], UpdateMetadata(fields, df), id)]

\* products.filter(p => p.id !== id)
DeletedProducts(products, id) == SelectSeq(products, LAMBDA r : r.id # id)

\* products.filter(p => !ids.includes(p.id))
BulkDeletedProducts(products, ids) ==
    SelectSeq(products, LAMBDA r : ~includes(ids, r.id))

\* ------------------------------------------------------------- requests
Idle ==
    [op |-> "none", pc |-> "idle", id |-> NoId, ids |-> << >>,
     fields |-> Fields(NoId, Undef, Undef), df |-> NotProvided,
     products |-> << >>, observed |-> "none", blobOp |-> "none",
     status |-> 0]

InFlight(p) == req[p].pc \notin {"idle", "done", "crashed"}

Mutating(p) == req[p].op \in {"Add", "Update", "Delete", "BulkDelete"}

\* A generated id is a random UUID: a caller can name it only after the Add
\* that made it has answered 201 with the new product.
Nameable(id) ==
    \/ id < FirstFreshId
    \/ id = StaleId
    \/ \E q \in Reqs : req[q].op = "Add" /\ req[q].status = 201 /\ req[q].id = id

NameableIds == {id \in TargetIds : Nameable(id)}

NameableBulkBodies ==
    {ids \in BulkBodies : \A i \in 1 .. Len(ids) : Nameable(ids[i])}

\* The array the handler passes to writeProductsToConstant.
ToWrite(r) ==
    CASE r.op = "Add" -> AddedProducts(r.products, r.id, r.df)
      [] r.op = "Update" ->
           UpdatedProducts(r.products, findIndex(r.products, r.id), r.id, r.fields, r.df)
      [] r.op = "Delete" -> DeletedProducts(r.products, r.id)
      [] r.op = "BulkDelete" -> BulkDeletedProducts(r.products, r.ids)

\* Status of the response after a successful write.
SuccessStatus(op) ==
    CASE op = "Add" -> 201
      [] op = "Update" -> 200
      [] OTHER -> 204

\* ------------------------------------------------------------------ Init
\* No call made yet.
NoCall == [op |-> "none"]

SeedProducts == <<Product(2, "t1", Null), Product(1, "t1", "a.zip")>>

SeedBlobs == {Blob(1, "a.zip", "ZIP")}

Init ==
    /\ artifact \in {Serialize(SeedProducts), Content("corrupt", << >>)}
    /\ initial = artifact
    /\ blobs = SeedBlobs
    /\ nextId = FirstFreshId
    /\ req = [p \in Reqs |-> Idle]
    /\ call = NoCall

\* ---------------------------------------------------- store primitives
\* Size of the text JSON.stringify produces, in characters per record:
\* the fixed part of a record plus its downloadableFileName (null, or a
\* quoted five-letter name).
RECURSIVE TextSize(_)
TextSize(products) ==
    IF products = << >> THEN 0
    ELSE (IF Head(products).downloadableFileName = Null THEN 104 ELSE 107)
         + TextSize(Tail(products))

\* What constant.tsx holds once fs.writeFile has written `products` from
\* offset 0 into the file as it is now: a file that another writer filled
\* in the meantime keeps its tail when the new text is shorter.
Overwritten(a, products) ==
    IF a.kind = "ok" /\ TextSize(products) < TextSize(a.products)
    THEN Content("corrupt", << >>)
    ELSE Serialize(products)

\* Variant: a document is inserted without looking for one with the same
\* productId (no unique index, no upsert filter).
BlobPutInsertOnly(bs, id, df) == bs \cup {Blob(id, df.fileName, df.fileData)}

\* ProductFile.create / findOneAndUpdate(..., {upsert: true})
BlobPut(bs, id, df) ==
    {b \in bs : b.productId # id} \cup {Blob(id, df.fileName, df.fileData)}

\* ProductFile.deleteOne({productId: id})
BlobDelete(bs, id) == {b \in bs : b.productId # id}

\* ProductFile.deleteMany({productId: {$in: ids}})
BlobDeleteMany(bs, ids) == {b \in bs : ~includes(ids, b.productId)}

\* The handler's catch block: res.status(500).
Failed(r) == [r EXCEPT !.pc = "done", !.status = 500]

\* A handler starts on the next request to arrive; requests are numbered in
\* arrival order.  Until its first await completes a handler has touched
\* nothing, so arrival and first step are one action.
Arrives(p) ==
    /\ req[p].pc = "idle"
    /\ \A q \in Reqs : q < p => req[q].pc # "idle"

\* --------------------------------------------------- POST /api/products
\* const products = await readProductsFromConstant(); randomUUID()
\* The body has passed the test of the required fields (AddCall has the
\* whole handler, the 400 included).
AddRead(p) ==
    /\ Arrives(p)
    /\ \E df \in AddPayloads :
         req' = [req EXCEPT ![p] =
                   [Idle EXCEPT !.op = "Add", !.df = df,
                                !.products = readProductsFromConstant(artifact),
                                !.observed = artifact.kind,
                                !.id = nextId,
                                !.pc = IF HasFileData(df) THEN "blob" ELSE "write"]]
    /\ nextId' = nextId + 1
    /\ UNCHANGED <<artifact, blobs, initial, call>>

\* Variant: a rejected ProductFile.create is swallowed and the handler goes
\* on to write the metadata.
AddBlobSwallowsError(p) ==
    /\ req[p].op = "Add" /\ req[p].pc = "blob"
    /\ \/ /\ \A b \in blobs : b.productId # req[p].id
          /\ blobs' = BlobPut(blobs, req[p].id, req[p].df)
          /\ req' = [req EXCEPT ![p] = [@ EXCEPT !.blobOp = "put", !.pc = "write"]]
       \/ /\ blobs' = blobs
          /\ req' = [req EXCEPT ![p] = [@ EXCEPT !.blobOp = "failed", !.pc = "write"]]
    /\ UNCHANGED <<artifact, nextId, initial, call>>

\* await ProductFile.create({...}), or its rejection
AddBlob(p) ==
    /\ req[p].op = "Add" /\ req[p].pc = "blob"
    /\ \/ /\ \A b \in blobs : b.productId # req[p].id
          /\ blobs' = BlobPut(blobs, req[p].id, req[p].df)
          /\ req' = [req EXCEPT ![p] = [@ EXCEPT !.blobOp = "put", !.pc = "write"]]
       \/ /\ blobs' = blobs
          /\ req' = [req EXCEPT ![p] = Failed([@ EXCEPT !.blobOp = "failed"])]
    /\ UNCHANGED <<artifact, nextId, initial, call>>

\* ------------------------------------------------ PUT /api/products/:id
\* Variant: the ProductFile step runs before the lookup, so an unknown id
\* gets its ZIP stored (or removed) and then the 404.
UpdateReadBlobBeforeLookup(p) ==
    /\ Arrives(p)
    /\ \E id \in NameableIds, f \in UpdateFields, df \in UpdatePayloads :
         LET products == readProductsFromConstant(artifact)
             r == [Idle EXCEPT !.op = "Update", !.id = id, !.fields = f, !.df = df,
                               !.products = products, !.observed = artifact.kind]
         IN IF findIndex(products, id) = 0
            THEN /\ req' = [req EXCEPT ![p] = [r EXCEPT !.pc = "done", !.status = 404]]
                 /\ blobs' = IF HasFileData(df) THEN BlobPut(blobs, id, df)
                              ELSE IF IsExplicitNull(df) THEN BlobDelete(blobs, id)
                              ELSE blobs
            ELSE /\ req' = [req EXCEPT ![p] =
                              IF HasFileData(df) \/ IsExplicitNull(df)
                              THEN [r EXCEPT !.pc = "blob"]
                              ELSE [r EXCEPT !.pc = "write"]]
                 /\ blobs' = blobs
    /\ UNCHANGED <<artifact, nextId, initial, call>>

\* let products = await readProductsFromConstant(); findIndex; 404
UpdateRead(p) ==
    /\ Arrives(p)
    /\ \E id \in NameableIds, f \in UpdateFields, df \in UpdatePayloads :
         LET products == readProductsFromConstant(artifact)
             r == [Idle EXCEPT !.op = "Update", !.id = id, !.fields = f, !.df = df,
                               !.products = products, !.observed = artifact.kind]
         IN req' = [req EXCEPT ![p] =
                      IF findIndex(products, id) = 0
                      THEN [r EXCEPT !.pc = "done", !.status = 404]
                      ELSE IF HasFileData(df) \/ IsExplicitNull(df)
                      THEN [r EXCEPT !.pc = "blob"]
                      ELSE [r EXCEPT !.pc = "write"]]
    /\ UNCHANGED <<artifact, blobs, nextId, initial, call>>

\* await ProductFile.findOneAndUpdate(upsert) / deleteOne, or rejection
UpdateBlob(p) ==
    /\ req[p].op = "Update" /\ req[p].pc = "blob"
    /\ \/ /\ HasFileData(req[p].df)
          /\ blobs' = BlobPut(blobs, req[p].id, req[p].df)
          /\ req' = [req EXCEPT ![p] = [@ EXCEPT !.blobOp = "put", !.pc = "write"]]
       \/ /\ ~HasFileData(req[p].df)
          /\ blobs' = BlobDelete(blobs, req[p].id)
          /\ req' = [req EXCEPT ![p] = [@ EXCEPT !.blobOp = "delete", !.pc = "write"]]
       \/ /\ blobs' = blobs
          /\ req' = [req EXCEPT ![p] = Failed([@ EXCEPT !.blobOp = "failed"])]
    /\ UNCHANGED <<artifact, nextId, initial, call>>

\* --------------------------------------------- DELETE /api/products/:id
\* await ProductFile.deleteOne({productId: id}), or its rejection
DeleteBlob(p) ==
    /\ Arrives(p)
    /\ \E id \in NameableIds :
         LET r == [Idle EXCEPT !.op = "Delete", !.id = id]
         IN \/ /\ blobs' = BlobDelete(blobs, id)
               /\ req' = [req EXCEPT ![p] = [r EXCEPT !.blobOp = "delete", !.pc = "read"]]
            \/ /\ blobs' = blobs
               /\ req' = [req EXCEPT ![p] = Failed([r EXCEPT !.blobOp = "failed"])]
    /\ UNCHANGED <<artifact, nextId, initial, call>>

\* let products = await readProductsFromConstant()
DeleteRead(p) ==
    /\ req[p].op \in {"Delete", "BulkDelete"} /\ req[p].pc = "read"
    /\ req' = [req EXCEPT ![p] =
                 [@ EXCEPT !.products = readProductsFromConstant(artifact),
                           !.observed = artifact.kind,
                           !.pc = "write"]]
    /\ UNCHANGED <<artifact, blobs, nextId, initial, call>>

\* ------------------------------------------------- DELETE /api/products
\* if (!ids || !Array.isArray(ids)) return res.status(400)
BulkDeleteReject(p) ==
    /\ Arrives(p)
    /\ req' = [req EXCEPT ![p] =
                 [Idle EXCEPT !.op = "BulkDelete", !.pc = "done", !.status = 400]]
    /\ UNCHANGED <<artifact, blobs, nextId, initial, call>>

\* await ProductFile.deleteMany({productId: {$in: ids}}), or its rejection
BulkDeleteBlob(p) ==
    /\ Arrives(p)
    /\ \E ids \in NameableBulkBodies :
         LET r == [Idle EXCEPT !.op = "BulkDelete", !.ids = ids]
         IN \/ /\ blobs' = BlobDeleteMany(blobs, ids)
               /\ req' = [req EXCEPT ![p] = [r EXCEPT !.blobOp = "delete", !.pc = "read"]]
            \/ /\ blobs' = blobs
               /\ req' = [req EXCEPT ![p] = Failed([r EXCEPT !.blobOp = "failed"])]
    /\ UNCHANGED <<artifact, nextId, initial, call>>

\* ---------------------------------------------------- GET /api/products
ListRead(p) ==
    /\ Arrives(p)
    /\ req' = [req EXCEPT ![p] =
                 [Idle EXCEPT !.op = "List",
                              !.products = readProductsFromConstant(artifact),
                              !.observed = artifact.kind,
                              !.pc = "done", !.status = 200]]
    /\ UNCHANGED <<artifact, blobs, nextId, initial, call>>

\* --------------------------------------------- writeProductsToConstant
\* fs.writeFile opens constant.tsx with flag 'w', which truncates it; the
\* open may be refused, which leaves the file as it was.
WriteOpen(p) ==
    /\ Mutating(p) /\ req[p].pc = "write"
    /\ \/ /\ artifact' = Content("partial", << >>)
          /\ req' = [req EXCEPT ![p] = [@ EXCEPT !.pc = "writing"]]
       \/ /\ artifact' = artifact
          /\ req' = [req EXCEPT ![p] = Failed(@)]
    /\ UNCHANGED <<blobs, nextId, initial, call>>

\* The text is written and the response sent; or the write is rejected
\* (disk full, I/O error) and the catch block answers 500.
WriteFinish(p) ==
    /\ Mutating(p) /\ req[p].pc = "writing"
    /\ \/ /\ artifact' = Overwritten(artifact, ToWrite(req[p]))
          /\ req' = [req EXCEPT ![p] =
                       [@ EXCEPT !.pc = "done", !.status = SuccessStatus(req[p].op)]]
       \/ /\ artifact' = artifact
          /\ req' = [req EXCEPT ![p] = Failed(@)]
    /\ UNCHANGED <<blobs, nextId, initial, call>>

\* ----------------------------------------------------------------- crash
\* The process dies: every handler in flight stops where it is; both
\* stores keep what they hold.
Crash ==
    /\ \E p \in Reqs : InFlight(p)
    /\ req' = [p \in Reqs |->
                 IF InFlight(p)
                 THEN [Idle EXCEPT !.pc = "crashed", !.op = req[p].op, !.id = req[p].id,
                                   !.ids = req[p].ids, !.df = req[p].df]
                 ELSE req[p]]
    /\ UNCHANGED <<artifact, blobs, nextId, initial, call>>

Next ==
    \/ \E p \in Reqs : AddRead(p)
    \/ \E p \in Reqs : AddBlob(p)
    \/ \E p \in Reqs : UpdateRead(p)
    \/ \E p \in Reqs : UpdateBlob(p)
    \/ \E p \in Reqs : DeleteBlob(p)
    \/ \E p \in Reqs : DeleteRead(p)
    \/ \E p \in Reqs : BulkDeleteReject(p)
    \/ \E p \in Reqs : BulkDeleteBlob(p)
    \/ \E p \in Reqs : ListRead(p)
    \/ \E p \in Reqs : WriteOpen(p)
    \/ \E p \in Reqs : WriteFinish(p)
    \/ Crash

Spec == Init /\ [][Next]_vars

\* =================================================================
\* Single calls on a quiet server
\* =================================================================
\* The handlers below are run one call at a time, no other request in
\* flight and every await resolving; `call` keeps the inputs and the
\* response of the call until the response has been sent.

\* Most products constant.tsx holds before a further product is added.
MaxCatalog == 3

\* Values of a JSON request body.
JsUndefined == [kind |-> "undefined", str |-> "", num |-> 0]
JsString(s) == [kind |-> "string", str |-> s, num |-> 0]
JsNumber(n) == [kind |-> "number", str |-> "", num |-> n]
\* An array of `len` elements.
JsArray(len) == [kind |-> "array", str |-> "", num |-> len]

\* What `!v` negates: undefined, "" and 0 are falsy, every array is truthy.
ToBoolean(v) ==
    CASE v.kind = "undefined" -> FALSE
      [] v.kind = "string" -> v.str # ""
      [] v.kind = "number" -> v.num # 0
      [] v.kind = "array" -> TRUE

\* req.body of POST /api/products, the five fields the handler tests.
AddBodies ==
    [title : {JsUndefined, JsString("t3")},
     description : {JsUndefined, JsString("d")},
     images : {JsUndefined, JsArray(0), JsArray(1)},
     price : {JsUndefined, JsNumber(0), JsNumber(5), JsString("5")},
     category : {JsUndefined, JsString("c")}]

\* if (!title || !description || !images || !price || !category)
MissingRequiredFields(body) ==
    \/ ~ToBoolean(body.title)
    \/ ~ToBoolean(body.description)
    \/ ~ToBoolean(body.images)
    \/ ~ToBoolean(body.price)
    \/ ~ToBoolean(body.category)

\* Stores a quiet server can hold: the seeded catalog, an empty one, or a
\* text that does not parse; ZIPs for the seeded ids, referenced or orphaned.
QuietArtifacts ==
    {Serialize(SeedProducts), Serialize(<< >>), Content("corrupt", << >>)}

QuietBlobs == SUBSET {Blob(1, "a.zip", "ZIP"), Blob(2, "b.zip", "ZIP")}

InitCalls ==
    /\ artifact \in QuietArtifacts
    /\ initial = artifact
    /\ blobs \in QuietBlobs
    /\ nextId = FirstFreshId
    /\ req = [p \in Reqs |-> Idle]
    /\ call = NoCall

\* POST /api/products, start to response: 400 before anything is read,
\* else read, ProductFile.create when a ZIP came, unshift, write, 201.
AddCall ==
    /\ call = NoCall
    /\ \E body \in AddBodies, df \in AddPayloads :
      IF MissingRequiredFields(body)
      THEN /\ call' = [op |-> "Add", body |-> body, df |-> df, status |-> 400]
           /\ UNCHANGED <<artifact, blobs, nextId, req, initial>>
      ELSE LET products == readProductsFromConstant(artifact) IN
           /\ Len(products) < MaxCatalog
           /\ blobs' = IF HasFileData(df) THEN BlobPut(blobs, nextId, df) ELSE blobs
           /\ artifact' = Serialize(AddedProducts(products, nextId, df))
           /\ nextId' = nextId + 1
           /\ call' = [op |-> "Add", body |-> body, df |-> df, status |-> 201]
           /\ UNCHANGED <<req, initial>>

\* ------------------------------------------------------------ identity
\* The Authorization header: none, a token jwt.verify rejects, or a token
\* signed at login with payload {id, role}.  u0 holds a token of an account
\* that has been removed since.
UserIds == {"u1", "u2"}
TokenIds == UserIds \cup {"u0"}
Roles == {"customer", "admin"}

NoUser == [id |-> Undef, role |-> Undef]

Credentials ==
    {[kind |-> k, user |-> NoUser] : k \in {"none", "invalid"}}
    \cup {[kind |-> "valid", user |-> [id |-> u, role |-> r]] :
            u \in TokenIds, r \in Roles}

\* addUserToRequest: req.user is set only when the token verifies.
addUserToRequest(cred) == IF cred.kind = "valid" THEN cred.user ELSE NoUser

\* authenticateToken: 401 without a token, 403 for one that does not verify,
\* 0 when the request goes on to the handler.
authenticateToken(cred) ==
    CASE cred.kind = "none" -> 401
      [] cred.kind = "invalid" -> 403
      [] OTHER -> 0

\* The User collection: the wishlist of each account.
UserDbs == [UserIds -> {{}, {1}, {2, FirstFreshId}}]

\* new Set(user?.wishlist || []) for User.findById(id)
wishlistSet(users, id) == IF id \in DOMAIN users THEN users[id] ELSE {}

\* {...p, wishlisted: flag}
WithWishlisted(p, flag) ==
    [id |-> p.id, title |-> p.title,
     downloadableFileName |-> p.downloadableFileName, wishlisted |-> flag]

\* Variant: the flag is looked up in the wishlists of all accounts,
\* whoever asks.
productDocsAnyWishlist(products, user, users) ==
    [i \in 1 .. Len(products) |->
       WithWishlisted(products[i],
                      \E u \in DOMAIN users : products[i].id \in users[u])]

\* productDocs of GET /api/products.
productDocs(products, user, users) ==
    [i \in 1 .. Len(products) |->
       WithWishlisted(products[i],
                      IF user # NoUser
                      THEN products[i].id \in wishlistSet(users, user.id)
                      ELSE FALSE)]

\* GET /api/products, start to response.
ListCall ==
    /\ call = NoCall
    /\ \E cred \in Credentials, users \in UserDbs :
      /\ call' = [op |-> "List", cred |-> cred, users |-> users, status |-> 200,
                  body |-> productDocs(readProductsFromConstant(artifact),
                                       addUserToRequest(cred), users)]
      /\ UNCHANGED <<artifact, blobs, nextId, req, initial>>

\* --------------------------------------------- GET /api/orders/:id/download
\* An Order document: its owner, its own ZIP if any, and the products bought.
Orders ==
    [user : UserIds,
     downloadableFile : {NotProvided, File("o.zip", "ZIP"), File(Undef, "ZIP"),
                         File("o.zip", Undef)},
     isProductOrder : BOOLEAN,
     productIds : {<< >>, <<1>>, <<1, 2>>, <<2, 1>>}]

\* Order.findById found nothing.
NoOrder ==
    [user |-> Undef, downloadableFile |-> NotProvided, isProductOrder |-> FALSE,
     productIds |-> << >>]

\* A response of the download route: status, and for 200 the attachment.
Response(status, fileName, fileData) ==
    [status |-> status, fileName |-> fileName, fileData |-> fileData]

\* Variant: an admin is refused unless the order is their own, and any
\* customer is let through.
ForbiddenRoleInverted(order, user) == order.user # user.id /\ user.role = "admin"

\* order.user.toString() !== req.user.id && req.user.role !== 'admin'
Forbidden(order, user) == order.user # user.id /\ user.role # "admin"

\* ProductFile.findOne({ productId })
findOne(bs, id) == {b \in bs : b.productId = id}

\* Variant: the first product of the order that has a ZIP is delivered.
productFileFirstAvailable(order, bs) ==
    LET productsInOrder == IF order.isProductOrder THEN order.productIds ELSE << >>
        withZip == SelectSeq(productsInOrder, LAMBDA id : findOne(bs, id) # {})
    IN  IF Len(withZip) > 0 THEN findOne(bs, withZip[1]) ELSE {}

\* productsInOrder and firstProductFile: the ZIP of productIds[0] only.
productFile(order, bs) ==
    LET productsInOrder == IF order.isProductOrder THEN order.productIds ELSE << >>
    IN  IF Len(productsInOrder) > 0 THEN findOne(bs, productsInOrder[1]) ELSE {}

\* The handler behind authenticateToken.
download(order, user, bs) ==
    IF order = NoOrder THEN Response(404, Undef, Undef)
    ELSE IF Forbidden(order, user) THEN Response(403, Undef, Undef)
    ELSE LET own == order.downloadableFile
             found == productFile(order, bs)
             file == IF Truthy(own.fileData) THEN own
                     ELSE IF found # {} THEN CHOOSE b \in found : TRUE
                     ELSE NotProvided
         IN  IF ~Truthy(file.fileData) THEN Response(404, Undef, Undef)
             ELSE Response(200, OrElse(file.fileName, "download.zip"), file.fileData)

\* GET /api/orders/:id/download, start to response.
DownloadCall ==
    /\ call = NoCall
    /\ \E cred \in Credentials, order \in Orders \cup {NoOrder} :
      /\ call' = [op |-> "Download", cred |-> cred, order |-> order,
                  response |->
                    IF authenticateToken(cred) # 0
                    THEN Response(authenticateToken(cred), Undef, Undef)
                    ELSE download(order, cred.user, blobs)]
      /\ UNCHANGED <<artifact, blobs, nextId, req, initial>>

\* --------------------------------------------- constant.tsx as a text
\* The text of constant.tsx, character by character where the characters
\* matter: a title is the sequence of its characters; an id, a file name
\* (or null) and a key with its colon are one token each, none of them
\* holding a comma, a bracket or a brace.  Ws is one whitespace character.
Marker == "export const products = "
Ws == " "
Quote == "'"

\* A title holding no comma, a title holding `,]` and a title holding `, }`.
Titles == {<<"t">>, <<"a", ",", "]">>, <<"b", ",", Ws, "}">>}

TextProducts ==
    {Product(id, title, dfn) : id \in {"p1", "p2"}, title \in Titles,
                               dfn \in {Null, "a.zip"}}

\* Product arrays of at most two products with ids of their own.
TextCatalogs ==
    {<< >>} \cup {<<p>> : p \in TextProducts}
    \cup {<<p, q>> : p \in {r \in TextProducts : r.id = "p1"},
                      q \in {r \in TextProducts : r.id = "p2"}}

\* One object of the array as JSON.stringify(products, null, 2) prints it.
stringifyProduct(p) ==
    <<"{", Ws, "id:", p.id, ",", Ws, "title:", Quote>> \o p.title
    \o <<Quote, ",", Ws, "downloadableFileName:", p.downloadableFileName, Ws, "}">>

RECURSIVE stringifyFrom(_, _)
stringifyFrom(products, i) ==
    IF i = Len(products) THEN stringifyProduct(products[i])
    ELSE stringifyProduct(products[i]) \o <<",", Ws>> \o stringifyFrom(products, i + 1)

\* JSON.stringify(products, null, 2)
stringify(products) ==
    IF products = << >> THEN <<"[", "]">>
    ELSE <<"[", Ws>> \o stringifyFrom(products, 1) \o <<Ws, "]">>

\* The file as fs.readFile finds it: absent, or its text.
Missing == [exists |-> FALSE, text |-> << >>]
TextFile(text) == [exists |-> TRUE, text |-> text]

\* writeProductsToConstant: the whole file is the marker, the array, `;`.
writeProductsToText(products) ==
    TextFile(<<Marker>> \o stringify(products) \o <<";">>)

\* First position at or after i that holds no whitespace.
RECURSIVE SkipWs(_, _)
SkipWs(t, i) == IF i <= Len(t) /\ t[i] = Ws THEN SkipWs(t, i + 1) ELSE i

\* t.replace(/,\s*<closer>/g, closer) from position i on.
RECURSIVE replaceFrom(_, _, _)
replaceFrom(t, closer, i) ==
    IF i > Len(t) THEN << >>
    ELSE LET j == SkipWs(t, i + 1) IN
         IF t[i] = "," /\ j <= Len(t) /\ t[j] = closer
         THEN <<closer>> \o replaceFrom(t, closer, j + 1)
         ELSE <<t[i]>> \o replaceFrom(t, closer, i + 1)

\* jsonStr.replace(/,\s*\]/g, ']').replace(/,\s*\}/g, '}')
cleanedJson(t) == replaceFrom(replaceFrom(t, "]", 1), "}", 1)

\* The text without the whitespace JSON.parse skips: all of it outside
\* string literals.
RECURSIVE Significant(_, _, _)
Significant(t, i, inString) ==
    IF i > Len(t) THEN << >>
    ELSE IF t[i] = Quote THEN <<Quote>> \o Significant(t, i + 1, ~inString)
    ELSE IF t[i] = Ws /\ ~inString THEN Significant(t, i + 1, inString)
    ELSE <<t[i]>> \o Significant(t, i + 1, inString)

\* Position of the quote that closes the string literal open at i, 0 if none.
RECURSIVE StringEnd(_, _)
StringEnd(u, i) ==
    IF i > Len(u) THEN 0 ELSE IF u[i] = Quote THEN i ELSE StringEnd(u, i + 1)

ParseFailure == [ok |-> FALSE, value |-> << >>]
Parsed(value) == [ok |-> TRUE, value |-> value]

Punctuation == {"[", "]", "{", "}", ",", Quote, Ws, ";"}

\* The objects from position i to the closing bracket that ends the text.
RECURSIVE ParseObjects(_, _)
ParseObjects(u, i) ==
    LET e == StringEnd(u, i + 6) IN
    IF /\ Len(u) >= i + 6
       /\ u[i] = "{" /\ u[i + 1] = "id:" /\ u[i + 2] \notin Punctuation
       /\ u[i + 3] = "," /\ u[i + 4] = "title:" /\ u[i + 5] = Quote
       /\ e > 0 /\ Len(u) >= e + 5
       /\ u[e + 1] = "," /\ u[e + 2] = "downloadableFileName:"
       /\ u[e + 3] \notin Punctuation /\ u[e + 4] = "}"
    THEN LET p == Product(u[i + 2], SubSeq(u, i + 6, e - 1), u[e + 3]) IN
         IF u[e + 5] = "]" /\ Len(u) = e + 5 THEN Parsed(<<p>>)
         ELSE IF u[e + 5] = ","
              THEN LET rest == ParseObjects(u, e + 6) IN
                   IF rest.ok THEN Parsed(<<p>> \o rest.value) ELSE ParseFailure
              ELSE ParseFailure
    ELSE ParseFailure

\* JSON.parse for texts that hold an array of product objects with their
\* keys in the order stringify prints them; anything else throws.
JSONparse(t) ==
    LET u == Significant(t, 1, FALSE) IN
    IF u = <<"[", "]">> THEN Parsed(<< >>)
    ELSE IF Len(u) > 0 /\ u[1] = "[" THEN ParseObjects(u, 2)
    ELSE ParseFailure

\* data.indexOf(startMarker), 0 when the marker is not in the text.
RECURSIVE indexOf(_, _, _)
indexOf(t, x, i) ==
    IF i > Len(t) THEN 0 ELSE IF t[i] = x THEN i ELSE indexOf(t, x, i + 1)

\* String.prototype.trim
RECURSIVE trim(_)
trim(t) ==
    IF t = << >> THEN t
    ELSE IF Head(t) = Ws THEN trim(Tail(t))
    ELSE IF t[Len(t)] = Ws THEN trim(SubSeq(t, 1, Len(t) - 1))
    ELSE t

\* readProductsFromConstant on the text: [] when the file cannot be read,
\* the marker is not found or JSON.parse throws.
readProductsFromText(file) ==
    LET startIndex == indexOf(file.text, Marker, 1) IN
    IF ~file.exists \/ startIndex = 0 THEN << >>
    ELSE LET jsonStr == trim(SubSeq(file.text, startIndex + 1, Len(file.text)))
             sliced == IF jsonStr # << >> /\ jsonStr[Len(jsonStr)] = ";"
                       THEN SubSeq(jsonStr, 1, Len(jsonStr) - 1) ELSE jsonStr
             parsed == JSONparse(cleanedJson(sliced))
         IN  IF parsed.ok THEN parsed.value ELSE << >>

\* A hand-edited file: a comma after the last field of every object and
\* after the last object.
HandEdited(products) ==
    LET t == stringify(products)
        trailing(i) == IF t[i] = Ws /\ i < Len(t) /\ t[i + 1] \in {"}", "]"}
                          /\ t[i - 1] # "["
                       THEN <<",", Ws>> ELSE <<t[i]>>
        RECURSIVE From(_)
        From(i) == IF i > Len(t) THEN << >> ELSE trailing(i) \o From(i + 1)
    IN  TextFile(<<Marker>> \o From(1) \o <<";">>)

\* The files readProductsFromConstant may find, each with what it holds:
\* a product array (kind "valid"), nothing yet, or a text that is no array.
ArtifactFiles ==
    {[kind |-> "valid", file |-> writeProductsToText(s), holds |-> s] :
        s \in TextCatalogs}
    \cup {[kind |-> "valid", file |-> HandEdited(s), holds |-> s] :
            s \in {c \in TextCatalogs : \A i \in 1 .. Len(c) : c[i].title = <<"t">>}}
    \cup {[kind |-> "missing", file |-> f, holds |-> << >>] :
            f \in {Missing, TextFile(<< >>)}}
    \cup {[kind |-> "unparsable", file |-> TextFile(t), holds |-> << >>] :
            t \in {<<Marker, "[", "{", "id:", "p1", "]", ";">>,
                   stringify(<<Product("p1", <<"t">>, Null)>>),
                   <<Marker>> \o stringifyProduct(Product("p1", <<"t">>, Null))}}

\* writeProductsToConstant(await readProductsFromConstant())
ReadWriteCall ==
    /\ call = NoCall
    /\ \E a \in ArtifactFiles :
      /\ call' = [op |-> "ReadWrite", before |-> a,
                  read |-> readProductsFromText(a.file),
                  after |-> writeProductsToText(readProductsFromText(a.file))]
      /\ UNCHANGED <<artifact, blobs, nextId, req, initial>>

\* writeProductsToConstant(s), then readProductsFromConstant()
WriteReadCall ==
    /\ call = NoCall
    /\ \E s \in TextCatalogs :
      /\ call' = [op |-> "WriteRead", products |-> s,
                  file |-> writeProductsToText(s),
                  read |-> readProductsFromText(writeProductsToText(s))]
      /\ UNCHANGED <<artifact, blobs, nextId, req, initial>>

\* res.json / res.send / res.sendStatus: the response leaves the server.
Respond ==
    /\ call # NoCall
    /\ call' = NoCall
    /\ UNCHANGED <<artifact, blobs, nextId, req, initial>>

NextCalls ==
    \/ AddCall
    \/ ListCall
    \/ DownloadCall
    \/ ReadWriteCall
    \/ WriteReadCall
    \/ Respond

SpecCalls == InitCalls /\ [][NextCalls]_vars

\* =================================================================
\* Properties
\* =================================================================
Submitted(p) == req[p].op # "none"

Done(p) == req[p].pc = "done"

\* The artifact parses and holds a record with this id.
HasId(a, id) == a.kind = "ok" /\ findIndex(a.products, id) # 0

HasBlob(bs, id) == \E b \in bs : b.productId = id

\* Every record that names a file has a ProductFile document.
NoDanglingMetadata(a, bs) ==
    a.kind = "ok" =>
        \A i \in 1 .. Len(a.products) :
            a.products[i].downloadableFileName # Null => HasBlob(bs, a.products[i].id)

\* The step in which request p's writeProductsToConstant resolves.
WriteSucceeds(p) ==
    /\ req[p].pc = "writing"
    /\ req'[p].pc = "done"
    /\ req'[p].status = SuccessStatus(req[p].op)

\* ---- C1 ---------------------------------------------------------
\* C1: when the only requests served are Adds and all of them have answered
\* 201, the artifact holds the product of every one of them.
C1_ConcurrentAddsBothListed ==
    (\A r \in Reqs : Submitted(r) => req[r].op = "Add" /\ Done(r) /\ req[r].status = 201)
        => \A r \in Reqs : Submitted(r) => HasId(artifact, req[r].id)

\* ---- C2 ---------------------------------------------------------
\* What request r does to a products array when it runs alone.
ApplyAlone(r, products) ==
    CASE r.op = "Add" -> AddedProducts(products, r.id, r.df)
      [] r.op = "Update" ->
           IF findIndex(products, r.id) = 0 THEN products
           ELSE UpdatedProducts(products, findIndex(products, r.id), r.id, r.fields, r.df)
      [] r.op = "Delete" -> DeletedProducts(products, r.id)
      [] r.op = "BulkDelete" -> BulkDeletedProducts(products, r.ids)
      [] OTHER -> products

\* The arrays reachable by running the requests of S one at a time, in any order.
RECURSIVE SerialOutcomes(_, _)
SerialOutcomes(S, products) ==
    IF S = {} THEN {products}
    ELSE UNION { SerialOutcomes(S \ {p}, ApplyAlone(req[p], products)) : p \in S }

\* C2: once every request served has answered with success, the products the
\* artifact yields are those of some one-at-a-time run of the same requests.
C2_SerialEquivalence ==
    (\A r \in Reqs : Submitted(r) => Done(r) /\ req[r].status \in {200, 201, 204})
        => readProductsFromConstant(artifact)
             \in SerialOutcomes({r \in Reqs : Submitted(r)},
                                readProductsFromConstant(initial))

\* ---- C3 ---------------------------------------------------------
\* A Delete, a bulk Delete or a clearing Update naming this id has arrived.
DeleteOrClearIssued(id) ==
    \E r \in Reqs :
        \/ req[r].op = "Delete" /\ req[r].id = id
        \/ req[r].op = "BulkDelete" /\ includes(req[r].ids, id)
        \/ req[r].op = "Update" /\ req[r].id = id /\ IsExplicitNull(req[r].df)

\* C3: in every state, crashes included, a record created by an Add (its id
\* is a generated one) that names a file has a ProductFile document, unless
\* a Delete or clearing Update of that id has been issued.
C3_AddBlobBeforeMetadata ==
    artifact.kind = "ok" =>
        \A i \in 1 .. Len(artifact.products) :
            LET r == artifact.products[i] IN
            (r.id >= FirstFreshId /\ r.downloadableFileName # Null
               /\ ~DeleteOrClearIssued(r.id))
                => HasBlob(blobs, r.id)

\* ---- C4 ---------------------------------------------------------
\* C4: the step in which a request's ProductFile call is rejected changes
\* neither store and answers 500; the request had written nothing before
\* it and takes no step after it.
C4_BlobFailureChangesNothing ==
    [][\A p \in Reqs :
         /\ (req[p].blobOp # "failed" /\ req'[p].blobOp = "failed")
              => /\ artifact' = artifact /\ blobs' = blobs
                 /\ req[p].pc \in {"idle", "blob"} /\ req[p].blobOp = "none"
                 /\ req'[p].pc = "done" /\ req'[p].status = 500
         /\ req[p].blobOp = "failed" => req'[p] = req[p]]_vars

\* Two requests whose ProductFile call was rejected: an Add with a ZIP and
\* a single Delete.
C4_Witness ==
    \E p, q \in Reqs :
        /\ req[p].op = "Add" /\ HasFileData(req[p].df)
        /\ req[p].blobOp = "failed" /\ Done(p) /\ req[p].status = 500
        /\ req[q].op = "Delete"
        /\ req[q].blobOp = "failed" /\ Done(q) /\ req[q].status = 500
        /\ artifact = initial /\ blobs = SeedBlobs

\* ---- C5 ---------------------------------------------------------
\* C5: when the one request served had its ProductFile call succeed and its
\* write rejected (500), the artifact is as it was and no record names a
\* file without a ProductFile document.
C5_WriteFailureLeavesOnlyOrphanBlobs ==
    \A p \in Reqs :
        ( /\ \A q \in Reqs : q # p => ~Submitted(q)
          /\ Mutating(p) /\ Done(p) /\ req[p].status = 500
          /\ req[p].blobOp \in {"put", "delete"} )
            => artifact = initial /\ NoDanglingMetadata(artifact, blobs)

\* ---- C6 ---------------------------------------------------------
\* C6: no read ever sees a partially written artifact, and when no write
\* is under way the artifact is not partially written.
C6_AtomicReplace ==
    /\ \A p \in Reqs : req[p].observed # "partial"
    /\ (\A p \in Reqs : req[p].pc # "writing") => artifact.kind # "partial"

\* ---- C7 ---------------------------------------------------------
\* C7: a listing of an unparsable artifact is empty; a mutating request that
\* read an unparsable artifact answers with a failure, and an artifact that
\* was unparsable at start is never replaced.
C7_CorruptStoreFailsWrites ==
    /\ \A p \in Reqs :
         (req[p].op = "List" /\ req[p].observed = "corrupt")
            => req[p].products = << >> /\ req[p].status = 200
    /\ \A p \in Reqs :
         (Mutating(p) /\ req[p].observed = "corrupt" /\ Done(p)) => req[p].status >= 400
    /\ initial.kind = "corrupt" => artifact = initial

\* ---- C8 ---------------------------------------------------------
\* C8: an Update without downloadableFile that answered 200 made no
\* ProductFile call and wrote the record with the downloadableFileName
\* it read.
C8_UpdateWithoutPayloadKeepsFile ==
    \A p \in Reqs :
        (req[p].op = "Update" /\ Done(p) /\ req[p].status = 200
           /\ req[p].df = NotProvided)
            => LET i == findIndex(req[p].products, req[p].id) IN
               /\ req[p].blobOp = "none"
               /\ ToWrite(req[p])[i].downloadableFileName
                    = req[p].products[i].downloadableFileName

\* ---- C9 ---------------------------------------------------------
\* C9: when the write of an Update resolves, its ProductFile call has been
\* made; after a clearing Update the record's downloadableFileName is null
\* and there is no ProductFile document for the id; after an Update with a
\* ZIP the record's downloadableFileName is the document's fileName.
C9_UpdateBlobThenMetadata ==
    [][\A p \in Reqs :
         (req[p].op = "Update" /\ WriteSucceeds(p))
            => LET id == req[p].id
                   i == IF artifact'.kind = "ok" THEN findIndex(artifact'.products, id) ELSE 0
               IN /\ IsExplicitNull(req[p].df) =>
                       /\ req[p].blobOp = "delete"
                       /\ i # 0
                       /\ artifact'.products[i].downloadableFileName = Null
                       /\ ~HasBlob(blobs', id)
                  /\ HasFileData(req[p].df) =>
                       /\ req[p].blobOp = "put"
                       /\ i # 0
                       /\ \E b \in blobs' :
                            /\ b.productId = id
                            /\ b.fileName = artifact'.products[i].downloadableFileName]_vars

C11_UpdateUnknownIdChangesNothing ==
    [][\A p \in Reqs :
         /\ ( /\ req[p].pc = "idle" /\ req'[p].op = "Update"
              /\ findIndex(readProductsFromConstant(artifact), req'[p].id) = 0 )
              => /\ req'[p].pc = "done" /\ req'[p].status = 404
                 /\ req'[p].blobOp = "none"
                 /\ artifact' = artifact /\ blobs' = blobs
         /\ (req[p].op = "Update" /\ req[p].status = 404) => req'[p] = req[p]]_vars

\* Updates of an unknown id have answered 404, one carrying a ZIP and one an
\* explicit null, and the stores are as at start.
C11_Witness ==
    \E p, q \in Reqs :
        /\ req[p].op = "Update" /\ req[p].status = 404 /\ HasFileData(req[p].df)
        /\ req[q].op = "Update" /\ req[q].status = 404 /\ IsExplicitNull(req[q].df)
        /\ req[p].id = StaleId /\ req[q].id = StaleId
        /\ initial.kind = "ok" /\ artifact = initial /\ blobs = SeedBlobs

\* ---- C12 --------------------------------------------------------
\* The id is one that Delete or bulk Delete request r removes.
Removes(r, id) ==
    \/ r.op = "Delete" /\ r.id = id
    \/ r.op = "BulkDelete" /\ includes(r.ids, id)

\* C12: when the write of a Delete or bulk Delete resolves, the artifact
\* parses, holds no record and the ProductFile collection no document of a
\* removed id, and the records left are those the request read, in order,
\* without the removed ones (all of them when the id was absent).
C12_DeleteRemovesBoth ==
    [][\A p \in Reqs :
         (req[p].op \in {"Delete", "BulkDelete"} /\ WriteSucceeds(p))
            => /\ artifact'.kind = "ok"
               /\ \A i \in 1 .. Len(artifact'.products) :
                    ~Removes(req[p], artifact'.products[i].id)
               /\ \A b \in blobs' : ~Removes(req[p], b.productId)
               /\ artifact'.products
                    = SelectSeq(req[p].products, LAMBDA x : ~Removes(req[p], x.id))
               /\ (\A i \in 1 .. Len(req[p].products) :
                     ~Removes(req[p], req[p].products[i].id))
                    => artifact'.products = req[p].products]_vars

\* ---- C18 --------------------------------------------------------
NoDuplicateIds(products) ==
    \A i, j \in 1 .. Len(products) : i # j => products[i].id # products[j].id

\* C18: in every reachable state an artifact that parses has no two records
\* with the same id, and no two ProductFile documents share a productId.
C18_UniqueIds ==
    /\ artifact.kind = "ok" => NoDuplicateIds(artifact.products)
    /\ \A b1, b2 \in blobs : b1.productId = b2.productId => b1 = b2

\* An Add with a ZIP and an Update that replaced product 1's ZIP and named
\* product 2's id in its body have both succeeded.
C18_Witness ==
    \E p, q \in Reqs :
        /\ req[p].op = "Add" /\ req[p].status = 201 /\ req[p].blobOp = "put"
        /\ req[q].op = "Update" /\ req[q].status = 200 /\ req[q].blobOp = "put"
        /\ req[q].id = 1 /\ req[q].fields.id = 2
        /\ artifact.kind = "ok" /\ Len(artifact.products) = 3
        /\ Blob(1, "b.zip", "ZIP") \in blobs /\ HasBlob(blobs, req[p].id)

\* ---- C19 --------------------------------------------------------
\* C19: once a Delete or bulk Delete that removed a record it read has
\* answered 204, no state holds a record or a ProductFile document with
\* the removed id.
C19_DeletedIdNeverReturns ==
    \A p \in Reqs :
        (req[p].op \in {"Delete", "BulkDelete"} /\ Done(p) /\ req[p].status = 204)
            => \A i \in 1 .. Len(req[p].products) :
                 LET id == req[p].products[i].id IN
                 Removes(req[p], id) => ~HasId(artifact, id) /\ ~HasBlob(blobs, id)

Absent(v) == v.kind = "undefined"

\* One of the five required fields is missing, an empty images array
\* counting as missing.
LacksRequired(body) ==
    \/ Absent(body.title)
    \/ Absent(body.description)
    \/ Absent(body.images) \/ (body.images.kind = "array" /\ body.images.num = 0)
    \/ Absent(body.price)
    \/ Absent(body.category)

\* C13: an Add is answered 400 exactly when title, description, images
\* (non-empty), price or category is missing, and a rejected Add changes
\* neither constant.tsx nor the ProductFile collection.
C13_AddValidation ==
    [][call'.op = "Add" =>
         /\ call'.status = 400 <=> LacksRequired(call'.body)
         /\ call'.status = 400 => artifact' = artifact /\ blobs' = blobs]_vars

\* C14: the listing holds the products of constant.tsx in their order, each
\* with a boolean wishlisted that is true iff the request carries an identity
\* whose wishlist holds the product's id; the call changes neither store.
C14_ListCatalog ==
    [][call'.op = "List" =>
         LET products == readProductsFromConstant(artifact)
             body == call'.body
             known == call'.cred.kind = "valid"
             who == call'.cred.user.id
         IN  /\ artifact' = artifact /\ blobs' = blobs
             /\ Len(body) = Len(products)
             /\ \A i \in 1 .. Len(products) :
                  /\ body[i].id = products[i].id
                  /\ body[i].title = products[i].title
                  /\ body[i].downloadableFileName = products[i].downloadableFileName
                  /\ body[i].wishlisted \in BOOLEAN
                  /\ body[i].wishlisted <=>
                       /\ known
                       /\ who \in DOMAIN call'.users
                       /\ products[i].id \in call'.users[who]]_vars

\* A signed-in customer whose wishlist holds product 1 and not product 2
\* lists the seeded catalog while another account has product 2 on its list.
C14_Witness ==
    /\ call.op = "List"
    /\ call.cred.kind = "valid" /\ call.cred.user.id = "u1"
    /\ call.users["u1"] = {1} /\ 2 \in call.users["u2"]
    /\ artifact = Serialize(SeedProducts)
    /\ call.body[1].id = 2 /\ ~call.body[1].wishlisted
    /\ call.body[2].id = 1 /\ call.body[2].wishlisted

\* The caller of the last download is the order's owner or an admin.
OwnerOrAdmin ==
    /\ call.cred.kind = "valid"
    /\ call.cred.user.id = call.order.user \/ call.cred.user.role = "admin"

\* C15: a download of an existing order delivers a file only to the order's
\* owner or an admin; any other signed-in caller gets 403, and no caller
\* but those two gets a file name or data.
C15_DownloadForbidden ==
    call.op = "Download" /\ call.order # NoOrder =>
      /\ call.response.status = 200 => OwnerOrAdmin
      /\ ~OwnerOrAdmin =>
           call.response.fileName = Undef /\ call.response.fileData = Undef
      /\ call.cred.kind = "valid" /\ ~OwnerOrAdmin => call.response.status = 403

\* A customer asks for another account's order that has its own ZIP and
\* a product whose ZIP is stored.
C15_Witness ==
    /\ call.op = "Download"
    /\ call.cred.kind = "valid" /\ call.cred.user = [id |-> "u2", role |-> "customer"]
    /\ call.order.user = "u1"
    /\ call.order.downloadableFile = File("o.zip", "ZIP")
    /\ call.order.isProductOrder /\ call.order.productIds = <<1>>
    /\ \E b \in blobs : b.productId = 1
    /\ call.response.status = 403

\* C16: for the owner or an admin, the order's own ZIP is delivered when it
\* has data, whatever productIds holds; else, for a product order with
\* productIds, the ZIP stored for the first id is delivered if there is
\* one; in every other case the answer is 404 with no file.
C16_DownloadPrecedence ==
    call.op = "Download" /\ call.order # NoOrder /\ OwnerOrAdmin =>
      LET own == call.order.downloadableFile
          ids == call.order.productIds
          first == {b \in blobs : /\ call.order.isProductOrder
                                  /\ ids # << >>
                                  /\ b.productId = ids[1]}
          r == call.response
      IN  IF own.fileData \notin {Undef, Null, ""}
          THEN /\ r.status = 200 /\ r.fileData = own.fileData
               /\ own.fileName # Undef => r.fileName = own.fileName
          ELSE IF first # {}
          THEN \E b \in first :
                 r.status = 200 /\ r.fileData = b.fileData /\ r.fileName = b.fileName
          ELSE r = Response(404, Undef, Undef)

\* The owner asks for a product order with productIds [2, 1] and no ZIP of
\* its own while a ZIP is stored for product 1 and none for product 2.
C16_Witness ==
    /\ call.op = "Download"
    /\ call.cred.kind = "valid" /\ call.cred.user.id = call.order.user
    /\ call.cred.user.role = "customer"
    /\ call.order.downloadableFile = NotProvided
    /\ call.order.isProductOrder /\ call.order.productIds = <<2, 1>>
    /\ \E b \in blobs : b.productId = 1
    /\ ~\E b \in blobs : b.productId = 2
    /\ call.response.status = 404

\* C17: rewriting what was read leaves a file that holds a product array
\* holding that array, an unparsable file as it was and a missing file
\* missing or holding the empty array; and reading after writing an array
\* returns that array.
C17_RoundTrip ==
    /\ call.op = "ReadWrite" =>
         CASE call.before.kind = "valid" ->
                call.after = writeProductsToText(call.before.holds)
           [] call.before.kind = "unparsable" -> call.after = call.before.file
           [] call.before.kind = "missing" ->
                call.after \in {Missing, writeProductsToText(<< >>)}
    /\ call.op = "WriteRead" => call.read = call.products
====
